---------------------------- MODULE Spec2Model ----------------------------
(***************************************************************************)
(* Print-dispatch pipeline of shopify-collector: the job broker            *)
(* (enqueue / pull / ack, embedded in backend/app/main.py and standalone   *)
(* in relay/main.py), the override cache of backend/app/main.py and the    *)
(* polling agent of agent/poller.py.                                       *)
(*                                                                         *)
(* Strings that the code inspects character by character (order numbers,   *)
(* which it lstrip("#")s) are sequences of one-character strings.  A       *)
(* uuid4 is a fresh value: job ids are drawn from the counter nextJid.     *)
(* The "ts" field of a job (int(time.time())) is not modelled.             *)
(***************************************************************************)
EXTENDS Integers, Sequences, FiniteSets, TLC

VARIABLES
    API_KEY,      \* broker: the configured shared key (RELAY_API_KEY / API_KEY)
    JOBS,         \* broker: dict pc_id -> list of jobs
    nextJid,      \* broker: the next fresh job id (uuid4)
    last,         \* the most recent broker request and its response
    accepted,     \* history: per pc_id, the jobs enqueue answered ok for, in order
    delivered,    \* history: per pc_id, the concatenation of all pull results
    relayJOBS,    \* relay: dict pc_id -> reference to a list object
    relayHeap,    \* relay: the list objects, by reference
    thr,          \* relay: the worker threads serving requests
    ORDER_OVERRIDES, \* backend: dict order number -> override record
    ovReq,        \* backend: the get_overrides request in progress or answered
    ovLive,       \* history: the live fetches of the request and how they ended
    probe,        \* an override record and what the completeness checks say of it
    ag,           \* agent: where main() is, its batch and its locals
    jlog          \* history: per pulled job id, the calls the agent made for it

brokerVars == <<API_KEY, JOBS, nextJid, last, accepted, delivered>>

relayVars == <<relayJOBS, relayHeap, thr>>

ovVars == <<ORDER_OVERRIDES, ovReq, ovLive, probe>>

agentVars == <<ag, jlog>>

vars == <<brokerVars, relayVars, ovVars, agentVars>>

(***************************************************************************)
(* Bounds                                                                  *)
(***************************************************************************)
MaxJobs == 3       \* job ids issued in one behaviour
MaxItems == 3      \* largest max_items a pull asks for, besides the default
NegItems == 2      \* most negative max_items a pull asks for is -NegItems
MaxThreads == 3    \* relay requests served concurrently in one behaviour
MaxProduced == 2   \* jobs the producer of the running agent enqueues

(***************************************************************************)
(* Python values                                                           *)
(***************************************************************************)
None == "None"

\* Python truthiness of an optional string: None and "" are falsy.
Truthy(v) == v /= None /\ v /= ""

\* a or b
Or(a, b) == IF Truthy(a) THEN a ELSE b

Min(a, b) == IF a <= b THEN a ELSE b
Max(a, b) == IF a >= b THEN a ELSE b

\* str.lstrip("#") on a string held as a sequence of characters: every
\* leading '#' goes, not only the first.
RECURSIVE lstrip(_)
lstrip(s) == IF s /= <<>> /\ Head(s) = "#" THEN lstrip(Tail(s)) ELSE s

\* Python slices q[:n] and q[n:] for any integer n (a negative n counts
\* from the end).
SliceTo(q, n) ==
    LET k == IF n >= 0 THEN Min(n, Len(q)) ELSE Max(Len(q) + n, 0)
    IN  SubSeq(q, 1, k)

SliceFrom(q, n) ==
    LET k == IF n >= 0 THEN Min(n, Len(q)) ELSE Max(Len(q) + n, 0)
    IN  SubSeq(q, k + 1, Len(q))

Range(s) == {s[i] : i \in 1..Len(s)}

Ids(s) == {s[i].job_id : i \in 1..Len(s)}

IsPrefix(s, t) == Len(s) <= Len(t) /\ SubSeq(t, 1, Len(s)) = s

(***************************************************************************)
(* Broker configuration and request inputs                                 *)
(***************************************************************************)
\* The PC registry, pc_id -> secret.
PCS == [p \in {"pc-lab-1", "pc-lab-2"} |->
          IF p = "pc-lab-1" THEN "SECRET1" ELSE "SECRET2"]

\* pc_ids a request may name: the registered ones and an unknown one.
ReqPcIds == DOMAIN PCS \cup {"pc-x"}

\* (pc_id, secret) pairs a pull or an ack may present: the right secret,
\* a wrong one, another PC's, and an unregistered pc_id.
Creds ==
    { <<"pc-lab-1", "SECRET1">>, <<"pc-lab-2", "SECRET2">>,
      <<"pc-lab-1", "bad">>, <<"pc-lab-2", "SECRET1">>,
      <<"pc-x", "SECRET1">> }

\* Values the deployment may configure as the shared key.
ApiKeyConfigs == {"CHANGE_ME_API_KEY", ""}

\* x-api-key header values (None: header absent).
ApiKeyHeaders == {None, "CHANGE_ME_API_KEY", "wrong"}

DefaultMaxItems == 5

MaxItemsInputs == ((0 - NegItems)..MaxItems) \cup {DefaultMaxItems}

\* Enqueue payloads (EnqueueBody without pc_id).
ScenarioA ==
    [orders |-> << <<"#", "7">>, <<"8">> >>, copies |-> 2,
     pdf_url |-> None, store |-> None]

Payloads ==
    { ScenarioA,
      [orders |-> << <<"#", "#", "7">> >>, copies |-> 0,
       pdf_url |-> "", store |-> ""],
      [orders |-> << >>, copies |-> 0 - 1,
       pdf_url |-> "u", store |-> "irranova"] }

\* The last request the broker served and its answer: cred is the
\* x-api-key header of an enqueue, the secret of a pull or an ack.
NoResponse ==
    [op |-> "none", pc |-> None, cred |-> None, status |-> 0, n |-> 0,
     before |-> <<>>, out |-> <<>>, job_id |-> 0, queued |-> 0]

(***************************************************************************)
(* Broker (backend/app/main.py; each handler is an async def without an    *)
(* await before its return, so it runs atomically on the event loop)       *)
(***************************************************************************)
\* _require_api_key: passes when no key is configured or the header equals it.
ApiKeyOk(x_api_key) == ~(Truthy(API_KEY) /\ x_api_key /= API_KEY)

\* Mutant: a check of the pc_id alone.
PcOkAnySecret(pc_id, secret) == pc_id \in DOMAIN PCS

\* _require_pc: passes when pc_id is registered with this secret.
PcOk(pc_id, secret) ==
    /\ pc_id \in DOMAIN PCS
    /\ Truthy(PCS[pc_id])
    /\ secret = PCS[pc_id]

\* JOBS.get(pc_id, [])
Queue(pc_id) == IF pc_id \in DOMAIN JOBS THEN JOBS[pc_id] ELSE <<>>

\* Mutant: an assignment that writes the value under every key.
DictPutEverywhere(d, k, v) == [x \in DOMAIN d \cup {k} |-> v]

\* dict store d[k] = v
DictPut(d, k, v) == [x \in DOMAIN d \cup {k} |-> IF x = k THEN v ELSE d[x]]

\* Mutant: a payload that strips one '#' and keeps copies as sent.
MakeJobAsSent(jid, body) ==
    [job_id  |-> jid,
     orders  |-> [i \in 1..Len(body.orders) |->
                    IF body.orders[i] /= <<>> /\ Head(body.orders[i]) = "#"
                    THEN Tail(body.orders[i]) ELSE body.orders[i]],
     copies  |-> body.copies,
     pdf_url |-> Or(body.pdf_url, None),
     store   |-> Or(body.store, None)]

\* The payload dict enqueue builds.
MakeJob(jid, body) ==
    [job_id  |-> jid,
     orders  |-> [i \in 1..Len(body.orders) |-> lstrip(body.orders[i])],
     copies  |-> Max(1, body.copies),
     pdf_url |-> Or(body.pdf_url, None),
     store   |-> Or(body.store, None)]

\* Mutants of pull: one that hands out the newest jobs, one that leaves the
\* queue as it was.
PullOutNewest(q, max_items) ==
    SubSeq(q, Len(q) - Len(SliceTo(q, max_items)) + 1, Len(q))
PullRestKeepsAll(q, max_items) == q

\* Mutant: the rest taken from the size of max_items, whatever its sign.
PullRestBySize(q, max_items) ==
    SliceFrom(q, IF max_items >= 0 THEN max_items ELSE 0 - max_items)

\* What pull hands out (out = q[:max_items]) and what it leaves
\* (JOBS[pc_id] = q[max_items:]).
PullOut(q, max_items) == SliceTo(q, max_items)
PullRest(q, max_items) == SliceFrom(q, max_items)

\* Mutant: an enqueue that puts the job at the head.
PushedAtHead(q, job) == <<job>> \o q

\* Mutant: an enqueue that puts the job in front of the last queued one.
PushedBeforeTail(q, job) ==
    IF q = <<>> THEN <<job>>
    ELSE SubSeq(q, 1, Len(q) - 1) \o <<job, q[Len(q)]>>

\* JOBS.setdefault(job.pc_id, []).append(payload)
Pushed(q, job) == Append(q, job)

\* Mutant: an enqueue that takes any pc_id.
PcKnownAlways(pc_id) == TRUE

\* enqueue: job.pc_id in PCS
PcKnown(pc_id) == pc_id \in DOMAIN PCS

enqueue(pc_id, body, x_api_key) ==
    /\ nextJid <= MaxJobs
    /\ IF ~ApiKeyOk(x_api_key)
       THEN /\ last' = [NoResponse EXCEPT !.op = "enqueue", !.pc = pc_id,
                                          !.cred = x_api_key,
                                          !.status = 401]
            /\ UNCHANGED <<JOBS, nextJid, accepted>>
       ELSE IF ~PcKnown(pc_id)
       THEN /\ last' = [NoResponse EXCEPT !.op = "enqueue", !.pc = pc_id,
                                          !.cred = x_api_key,
                                          !.status = 404]
            /\ UNCHANGED <<JOBS, nextJid, accepted>>
       ELSE LET job == MakeJob(nextJid, body)
                q   == Pushed(Queue(pc_id), job)
            IN  /\ JOBS' = DictPut(JOBS, pc_id, q)
                /\ nextJid' = nextJid + 1
                /\ accepted' = [accepted EXCEPT ![pc_id] = Append(@, job)]
                /\ last' = [NoResponse EXCEPT !.op = "enqueue", !.pc = pc_id,
                                          !.cred = x_api_key,
                                              !.status = 200,
                                              !.before = Queue(pc_id),
                                              !.job_id = nextJid,
                                              !.queued = Len(q)]
    /\ UNCHANGED <<API_KEY, delivered>>

pull(pc_id, secret, max_items) ==
    /\ IF ~PcOk(pc_id, secret)
       THEN /\ last' = [NoResponse EXCEPT !.op = "pull", !.pc = pc_id,
                                          !.cred = secret,
                                          !.status = 401]
            /\ UNCHANGED <<JOBS, delivered>>
       ELSE LET q == Queue(pc_id) IN
            IF q = <<>>
            THEN /\ last' = [NoResponse EXCEPT !.op = "pull", !.pc = pc_id,
                                          !.cred = secret,
                                               !.status = 200, !.n = max_items]
                 /\ UNCHANGED <<JOBS, delivered>>
            ELSE /\ JOBS' = DictPut(JOBS, pc_id, PullRest(q, max_items))
                 /\ delivered' = [delivered EXCEPT
                                    ![pc_id] = @ \o PullOut(q, max_items)]
                 /\ last' = [NoResponse EXCEPT !.op = "pull", !.pc = pc_id,
                                          !.cred = secret,
                                               !.status = 200, !.n = max_items,
                                               !.before = q,
                                               !.out = PullOut(q, max_items)]
    /\ UNCHANGED <<API_KEY, nextJid, accepted>>

\* Mutant: an ack that takes the job out of the queue.
ackRemoves(pc_id, secret, job_id) ==
    /\ last' = [NoResponse EXCEPT !.op = "ack", !.pc = pc_id,
                                  !.cred = secret, !.job_id = job_id,
                                  !.status = IF PcOk(pc_id, secret)
                                             THEN 200 ELSE 401]
    /\ JOBS' = IF PcOk(pc_id, secret) /\ pc_id \in DOMAIN JOBS
               THEN [JOBS EXCEPT ![pc_id] =
                       SelectSeq(@, LAMBDA j : j.job_id /= job_id)]
               ELSE JOBS
    /\ UNCHANGED <<API_KEY, nextJid, accepted, delivered>>

ack(pc_id, secret, job_id) ==
    /\ last' = [NoResponse EXCEPT !.op = "ack", !.pc = pc_id,
                                  !.cred = secret, !.job_id = job_id,
                                  !.status = IF PcOk(pc_id, secret)
                                             THEN 200 ELSE 401]
    /\ UNCHANGED <<API_KEY, JOBS, nextJid, accepted, delivered>>

BrokerInit(keys) ==
    /\ API_KEY \in keys
    /\ JOBS = << >>
    /\ nextJid = 1
    /\ last = NoResponse
    /\ accepted = [p \in DOMAIN PCS |-> <<>>]
    /\ delivered = [p \in DOMAIN PCS |-> <<>>]

\* Enqueue requests: every payload for every pc_id under the configured
\* key, and one payload under each other header value.
Enqueue ==
    /\ \/ \E pc_id \in ReqPcIds, body \in Payloads :
              enqueue(pc_id, body, "CHANGE_ME_API_KEY")
       \/ \E pc_id \in ReqPcIds, k \in ApiKeyHeaders :
              enqueue(pc_id, ScenarioA, k)
    /\ UNCHANGED <<relayVars, ovVars, agentVars>>

\* Pull requests: every max_items under the right secret, the default
\* max_items under every other credential.
Pull ==
    /\ \/ \E c \in Creds, n \in MaxItemsInputs :
              PcOk(c[1], c[2]) /\ pull(c[1], c[2], n)
       \/ \E c \in Creds : pull(c[1], c[2], DefaultMaxItems)
    /\ UNCHANGED <<relayVars, ovVars, agentVars>>

Ack ==
    /\ \E c \in Creds, j \in {1, nextJid} : ack(c[1], c[2], j)
    /\ UNCHANGED <<relayVars, ovVars, agentVars>>

\* Requests as callers with and without the right credentials send them:
\* every pc_id under every x-api-key header, every credential of a pull,
\* every credential and every job id, issued or not, of an ack.
EnqueueRequest ==
    /\ \E pc_id \in ReqPcIds, k \in ApiKeyHeaders :
          enqueue(pc_id, ScenarioA, k)
    /\ UNCHANGED <<relayVars, ovVars, agentVars>>

PullRequest ==
    /\ \E c \in Creds, n \in {1, DefaultMaxItems} : pull(c[1], c[2], n)
    /\ UNCHANGED <<relayVars, ovVars, agentVars>>

AckRequest ==
    /\ \E c \in Creds, j \in 1..nextJid : ack(c[1], c[2], j)
    /\ UNCHANGED <<relayVars, ovVars, agentVars>>

RequestsNext == EnqueueRequest \/ PullRequest \/ AckRequest

(***************************************************************************)
(* Relay (relay/main.py).  Its handlers are plain def functions, which     *)
(* FastAPI runs on worker threads: the interpreter may switch threads      *)
(* between any two steps of a handler.  A list is an object: JOBS holds a  *)
(* reference, pull keeps the reference it read in q, and append changes    *)
(* the object in place.  Reference 0 is the empty default list of          *)
(* JOBS.get(pc_id, []), which nothing else can reach.                      *)
(***************************************************************************)
Threads == 1..MaxThreads

IdleThread ==
    [op |-> "none", at |-> "idle", pc_id |-> None, n |-> 0, q |-> 0,
     out |-> <<>>, job |-> None, status |-> 0, queued |-> 0]

Deref(ref) == IF ref = 0 THEN <<>> ELSE relayHeap[ref]

RelayInit ==
    /\ relayJOBS = << >>
    /\ relayHeap = << >>
    /\ thr = [t \in Threads |-> IdleThread]

\* Mutant: an enqueue of the relay that takes any pc_id.
RelayEnqueueEntryAnyPc(th, pc_id, body, x_api_key) ==
    IF ~ApiKeyOk(x_api_key)
    THEN [th EXCEPT !.op = "enqueue", !.pc_id = pc_id, !.at = "done",
                    !.status = 401]
    ELSE [th EXCEPT !.op = "enqueue", !.pc_id = pc_id, !.at = "setdefault",
                    !.job = MakeJob(nextJid, body)]

\* enqueue, up to the job dict: _require_api_key, the pc_id check, uuid4.
\* The thread's locals once the checks are done.
RelayEnqueueEntry(th, pc_id, body, x_api_key) ==
    IF ~ApiKeyOk(x_api_key)
    THEN [th EXCEPT !.op = "enqueue", !.pc_id = pc_id, !.at = "done",
                    !.status = 401]
    ELSE IF pc_id \notin DOMAIN PCS
    THEN [th EXCEPT !.op = "enqueue", !.pc_id = pc_id, !.at = "done",
                    !.status = 404]
    ELSE [th EXCEPT !.op = "enqueue", !.pc_id = pc_id, !.at = "setdefault",
                    !.job = MakeJob(nextJid, body)]

RelayEnqueueStart(t, pc_id, body, x_api_key) ==
    /\ thr[t].at = "idle"
    /\ nextJid <= MaxJobs
    /\ thr' = [thr EXCEPT
                 ![t] = RelayEnqueueEntry(@, pc_id, body, x_api_key)]
    /\ nextJid' = IF thr'[t].at = "setdefault"
                  THEN nextJid + 1 ELSE nextJid
    /\ UNCHANGED <<API_KEY, JOBS, last, accepted, delivered,
                   relayJOBS, relayHeap, ovVars, agentVars>>

\* JOBS.setdefault(job.pc_id, [])
RelayEnqueueSetdefault(t) ==
    /\ thr[t].at = "setdefault"
    /\ IF thr[t].pc_id \in DOMAIN relayJOBS
       THEN /\ thr' = [thr EXCEPT ![t] = [@ EXCEPT !.at = "append",
                          !.q = relayJOBS[thr[t].pc_id]]]
            /\ UNCHANGED <<relayJOBS, relayHeap>>
       ELSE /\ relayHeap' = Append(relayHeap, <<>>)
            /\ relayJOBS' = DictPut(relayJOBS, thr[t].pc_id,
                                    Len(relayHeap) + 1)
            /\ thr' = [thr EXCEPT ![t] = [@ EXCEPT !.at = "append",
                          !.q = Len(relayHeap) + 1]]
    /\ UNCHANGED <<brokerVars, ovVars, agentVars>>

\* .append(payload), on the list setdefault returned
RelayEnqueueAppend(t) ==
    /\ thr[t].at = "append"
    /\ relayHeap' = [relayHeap EXCEPT ![thr[t].q] = Append(@, thr[t].job)]
    /\ thr' = [thr EXCEPT ![t] = [@ EXCEPT !.at = "len"]]
    /\ UNCHANGED <<brokerVars, relayJOBS, ovVars, agentVars>>

\* return {"ok": True, "job_id": jid, "queued": len(JOBS[job.pc_id])}
RelayEnqueueReturn(t) ==
    /\ thr[t].at = "len"
    /\ thr' = [thr EXCEPT ![t] = [@ EXCEPT !.at = "done", !.status = 200,
                  !.queued = Len(Deref(relayJOBS[thr[t].pc_id]))]]
    /\ UNCHANGED <<brokerVars, relayJOBS, relayHeap, ovVars, agentVars>>

\* pull, up to _require_pc: the thread's locals once the check is done.
RelayPullEntry(th, pc_id, secret, max_items) ==
    [th EXCEPT !.op = "pull", !.pc_id = pc_id, !.n = max_items,
               !.at = IF PcOk(pc_id, secret) THEN "get" ELSE "done",
               !.status = IF PcOk(pc_id, secret) THEN 0 ELSE 401]

RelayPullStart(t, pc_id, secret, max_items) ==
    /\ thr[t].at = "idle"
    /\ thr' = [thr EXCEPT
                 ![t] = RelayPullEntry(@, pc_id, secret, max_items)]
    /\ UNCHANGED <<brokerVars, relayJOBS, relayHeap, ovVars, agentVars>>

\* q = JOBS.get(pc_id, [])
RelayPullGet(t) ==
    /\ thr[t].at = "get"
    /\ thr' = [thr EXCEPT ![t] = [@ EXCEPT !.at = "test",
                  !.q = IF thr[t].pc_id \in DOMAIN relayJOBS
                        THEN relayJOBS[thr[t].pc_id] ELSE 0]]
    /\ UNCHANGED <<brokerVars, relayJOBS, relayHeap, ovVars, agentVars>>

\* if not q: return {"ok": True, "jobs": []}
RelayPullTest(t) ==
    /\ thr[t].at = "test"
    /\ thr' = [thr EXCEPT ![t] =
                 IF Deref(thr[t].q) = <<>>
                 THEN [@ EXCEPT !.at = "done", !.status = 200]
                 ELSE [@ EXCEPT !.at = "out"]]
    /\ UNCHANGED <<brokerVars, relayJOBS, relayHeap, ovVars, agentVars>>

\* out = q[:max_items]
RelayPullOut(t) ==
    /\ thr[t].at = "out"
    /\ thr' = [thr EXCEPT ![t] = [@ EXCEPT !.at = "store",
                  !.out = PullOut(Deref(thr[t].q), thr[t].n)]]
    /\ UNCHANGED <<brokerVars, relayJOBS, relayHeap, ovVars, agentVars>>

\* JOBS[pc_id] = q[max_items:]; return {"ok": True, "jobs": out}
RelayPullStore(t) ==
    /\ thr[t].at = "store"
    /\ relayHeap' = Append(relayHeap, PullRest(Deref(thr[t].q), thr[t].n))
    /\ relayJOBS' = DictPut(relayJOBS, thr[t].pc_id, Len(relayHeap) + 1)
    /\ thr' = [thr EXCEPT ![t] = [@ EXCEPT !.at = "done", !.status = 200]]
    /\ UNCHANGED <<brokerVars, ovVars, agentVars>>

\* ack: _require_pc; return {"ok": True}
RelayAckEntry(th, pc_id, secret) ==
    [th EXCEPT !.op = "ack", !.pc_id = pc_id, !.at = "done",
               !.status = IF PcOk(pc_id, secret) THEN 200 ELSE 401]

RelayNext ==
    \E t \in Threads :
        \/ \E pc_id \in ReqPcIds, k \in ApiKeyHeaders :
              RelayEnqueueStart(t, pc_id, ScenarioA, k)
        \/ RelayEnqueueSetdefault(t)
        \/ RelayEnqueueAppend(t)
        \/ RelayEnqueueReturn(t)
        \/ \E c \in Creds, n \in {1, DefaultMaxItems} :
              RelayPullStart(t, c[1], c[2], n)
        \/ RelayPullGet(t)
        \/ RelayPullTest(t)
        \/ RelayPullOut(t)
        \/ RelayPullStore(t)

(***************************************************************************)
(* The two brokers side by side.  Every request goes to both: the          *)
(* backend's handler runs whole, the relay's runs on thread 1, and the     *)
(* next request waits until it has returned (a sequential history).  The   *)
(* job id drawn for an enqueue stands for the uuid4 of either broker.      *)
(***************************************************************************)
\* Lists the relay may have made before the last request is sent.
MaxLists == 3

BothIdle == thr[1].at \in {"idle", "done"}

BothReady == BothIdle /\ Len(relayHeap) < MaxLists

BothEnqueue ==
    /\ BothReady
    /\ \E pc_id \in ReqPcIds, body \in Payloads, k \in ApiKeyHeaders :
          /\ enqueue(pc_id, body, k)
          /\ thr' = [thr EXCEPT
                       ![1] = RelayEnqueueEntry(IdleThread, pc_id, body, k)]
    /\ UNCHANGED <<relayJOBS, relayHeap, ovVars, agentVars>>

BothPull ==
    /\ BothReady
    /\ \E c \in Creds, n \in {0 - 1, 1, DefaultMaxItems} :
          /\ pull(c[1], c[2], n)
          /\ thr' = [thr EXCEPT
                       ![1] = RelayPullEntry(IdleThread, c[1], c[2], n)]
    /\ UNCHANGED <<relayJOBS, relayHeap, ovVars, agentVars>>

BothAck ==
    /\ BothReady
    /\ \E c \in Creds :
          /\ ack(c[1], c[2], 1)
          /\ thr' = [thr EXCEPT
                       ![1] = RelayAckEntry(IdleThread, c[1], c[2])]
    /\ UNCHANGED <<relayJOBS, relayHeap, ovVars, agentVars>>

BothNext ==
    \/ BothEnqueue
    \/ BothPull
    \/ BothAck
    \/ RelayEnqueueSetdefault(1)
    \/ RelayEnqueueAppend(1)
    \/ RelayEnqueueReturn(1)
    \/ RelayPullGet(1)
    \/ RelayPullTest(1)
    \/ RelayPullOut(1)
    \/ RelayPullStore(1)

(***************************************************************************)
(* Override cache (backend/app/main.py).  A text field is None or a        *)
(* string, and the code only asks whether a string is empty, blank or      *)
(* not: "" is the empty string, " " a string of whitespace only, "x" a     *)
(* string with a visible character.  A missing customer or                 *)
(* shipping_address dict reads as {} (x.get(..) or {}), i.e. as one whose  *)
(* fields are all None.  The address lines, which completeness never       *)
(* reads, and "tags" are not modelled.                                     *)
(***************************************************************************)
\* str.strip()
strip(v) ==
    IF v = " " THEN "" ELSE IF v = " Irranova " THEN "Irranova" ELSE v

\* str.lower()
lower(v) == IF v = "Irranova" THEN "irranova" ELSE v

\* a + b
concat(a, b) ==
    IF a = "x" \/ b = "x" THEN "x"
    ELSE IF a = " " \/ b = " " THEN " " ELSE ""

Person(first, lst, email, phone) ==
    [first_name |-> first, last_name |-> lst, email |-> email, phone |-> phone]

Address(name, first, lst, phone) ==
    [name |-> name, first_name |-> first, last_name |-> lst, phone |-> phone]

\* Order payloads as Shopify sends them (webhook body, REST order detail).
RawFull ==
    [customer |-> Person("x", "x", "x", None),
     shipping_address |-> Address("x", "x", "x", "x"),
     email |-> "x", phone |-> None]

RawNameOnly ==
    [customer |-> Person("x", None, None, None),
     shipping_address |-> Address(None, None, None, None),
     email |-> None, phone |-> None]

\* The customer's e-mail is blank, the order's own e-mail is not.
RawBlankEmail ==
    [customer |-> Person(None, " ", " ", None),
     shipping_address |-> Address(None, "x", None, None),
     email |-> "x", phone |-> None]

RawOrders == {RawFull, RawNameOnly}

\* ((first_name or "").strip() + (" " + (last_name or "").strip()
\*   if last_name else "")).strip()
DisplayName(c) ==
    strip(concat(strip(Or(c.first_name, "")),
                 IF Truthy(c.last_name)
                 THEN concat(" ", strip(Or(c.last_name, ""))) ELSE ""))

\* shipping.name or (first_name.strip() + " " + last_name.strip()).strip()
ShippingName(a) ==
    Or(a.name,
       strip(concat(concat(strip(Or(a.first_name, "")), " "),
                    strip(Or(a.last_name, "")))))

\* The record orders_update_webhook stores.
WebhookOverride(store_key, data) ==
    [store |-> store_key,
     customer |->
        [displayName |-> DisplayName(data.customer),
         email |-> Or(data.customer.email, data.email),
         phone |-> Or(data.customer.phone, data.phone)],
     shippingAddress |->
        [name |-> ShippingName(data.shipping_address),
         phone |-> Or(data.shipping_address.phone,
                      Or(data.customer.phone, data.phone))],
     email |-> data.email,
     phone |-> data.phone]

\* The record _fetch_live_for_store builds from the order detail.
LiveOverride(store_key, ord_full) ==
    LET root_email == strip(Or(ord_full.email, ""))
        root_phone == strip(Or(ord_full.phone, ""))
        cust == ord_full.customer
        shp == ord_full.shipping_address
    IN  [store |-> store_key,
         customer |->
            [displayName |-> DisplayName(cust),
             email |-> Or(cust.email, Or(root_email, None)),
             phone |-> Or(cust.phone, Or(root_phone, None))],
         shippingAddress |->
            [name |-> ShippingName(shp),
             phone |-> Or(shp.phone, Or(cust.phone, Or(root_phone, None)))],
         email |-> Or(root_email, cust.email),
         phone |-> Or(root_phone, cust.phone)]

\* get_overrides._override_is_complete
override_is_complete(ov) ==
    LET cust == ov.customer
        shp == ov.shippingAddress
        name_ok == Truthy(Or(strip(Or(cust.displayName, "")),
                             strip(Or(shp.name, ""))))
        contact_ok ==
            Truthy(Or(strip(Or(cust.email, Or(ov.email, ""))),
                      strip(Or(cust.phone, Or(ov.phone, Or(shp.phone, ""))))))
    IN  name_ok /\ contact_ok

\* Order numbers as requests and webhooks spell them.
OrderNames == { <<"7">>, <<"#", "7">>, <<"#", "#", "8">> }

\* The "orders" query of get_overrides, split at the commas.
OrderLists == { << <<"7">> >>, << <<"#", "7">>, <<"8">> >> }

\* Store keys of a request (None: no store given).
StoreKeys == {"irrakids", "irranova", None}

\* Store keys of the shop domains that send webhooks
\* (_store_key_for_shop_domain).
ShopStoreKeys == {"irrakids", "irranova"}

\* known (history): the orders for which the request before this one,
\* made without force_live, returned a complete record that the cache
\* still held when this request came.
NoRequest ==
    [at |-> "idle", keys |-> <<>>, store |-> None, stores |-> <<>>,
     force_live |-> FALSE, out |-> << >>, known |-> {}]

\* No record under a completeness check.
NoProbe == [ov |-> None, at |-> "none", agent |-> FALSE, backend |-> FALSE]

OverridesInit ==
    /\ ORDER_OVERRIDES = << >>
    /\ ovReq = NoRequest
    /\ ovLive = {}
    /\ probe = NoProbe

\* Mutant: a push that keeps nothing but the pushed order in the cache.
WebhookKeepsOnlyPushed(hmac_ok, store_key, name, data) ==
    /\ IF hmac_ok /\ name /= <<>>
       THEN ORDER_OVERRIDES' =
                [k \in {lstrip(name)} |-> WebhookOverride(store_key, data)]
       ELSE UNCHANGED ORDER_OVERRIDES
    /\ UNCHANGED <<brokerVars, relayVars, agentVars, ovReq, ovLive, probe>>

\* POST /api/shopify/webhooks/orders/update, after the body is read.
\* hmac_ok: _verify_shopify_hmac.  name: data["name"], None when missing.
orders_update_webhook(hmac_ok, store_key, name, data) ==
    /\ IF hmac_ok /\ name /= <<>>
       THEN ORDER_OVERRIDES' =
                DictPut(ORDER_OVERRIDES, lstrip(name),
                        WebhookOverride(store_key, data))
       ELSE UNCHANGED ORDER_OVERRIDES
    /\ UNCHANGED <<brokerVars, relayVars, agentVars, ovReq, ovLive, probe>>

\* get_overrides up to its first await: the keys, and out seeded from the
\* cache.
GetOverridesStart(orders, store, force_live) ==
    /\ ovReq.at \in {"idle", "done"}
    /\ LET keys == [i \in 1..Len(orders) |-> lstrip(orders[i])]
           seeded == {keys[i] : i \in 1..Len(keys)} \cap DOMAIN ORDER_OVERRIDES
       IN  ovReq' = [at |-> "fetch",
                     keys |-> keys,
                     store |-> store,
                     stores |-> IF Truthy(store) THEN <<store>>
                                ELSE <<"irrakids", "irranova">>,
                     force_live |-> force_live,
                     out |-> [k \in seeded |-> ORDER_OVERRIDES[k]],
                     known |-> IF ovReq.force_live THEN {}
                               ELSE {k \in DOMAIN ovReq.out \cap
                                          DOMAIN ORDER_OVERRIDES :
                                       /\ override_is_complete(ovReq.out[k])
                                       /\ ORDER_OVERRIDES[k] = ovReq.out[k]}]
    /\ ovLive' = {}
    /\ UNCHANGED <<brokerVars, relayVars, agentVars, ORDER_OVERRIDES, probe>>

\* A live fetch for order k in a store, and how it ended.
Fetched(store_key, k, kind) == [store |-> store_key, k |-> k, kind |-> kind]

\* Mutant: a loop that fetches every key live.
SkipLiveNever(out, k, force_live) == FALSE

\* Mutant: any record in the result, complete or not, spares the fetch.
SkipLiveIfPresent(out, k, force_live) == k \in DOMAIN out /\ ~force_live

\* if (k in out) and _override_is_complete(out[k]) and not force_live:
\*     continue
SkipLive(out, k, force_live) ==
    /\ k \in DOMAIN out
    /\ override_is_complete(out[k])
    /\ ~force_live

\* Mutant: a loop that a failing fetch ends.
RECURSIVE FetchLoopAborts(_, _, _, _, _, _)
FetchLoopAborts(keys, i, store_key, force_live, res, st) ==
    IF i > Len(keys) THEN st
    ELSE LET k == keys[i]
             ov == LiveOverride(store_key, res[i].order)
             live == st[3] \cup {Fetched(store_key, k, res[i].kind)}
         IN  IF SkipLive(st[1], k, force_live)
             THEN FetchLoopAborts(keys, i + 1, store_key, force_live, res, st)
             ELSE IF res[i].kind = "error"
             THEN <<st[1], st[2], live>>
             ELSE IF res[i].kind = "none"
             THEN FetchLoopAborts(keys, i + 1, store_key, force_live, res,
                                  <<st[1], st[2], live>>)
             ELSE FetchLoopAborts(keys, i + 1, store_key, force_live, res,
                                  <<DictPut(st[1], k, ov),
                                    DictPut(st[2], k, ov), live>>)

\* One pass of the for loop of _fetch_live_for_store over keys[i..]: st is
\* <<out, cache, live>>, res[i] what the shop answers for keys[i]: kind
\* "error" (a request or its parsing raised), "none" (no such order) or
\* "order" (the order detail).
RECURSIVE FetchLoop(_, _, _, _, _, _)
FetchLoop(keys, i, store_key, force_live, res, st) ==
    IF i > Len(keys) THEN st
    ELSE LET k == keys[i]
             skip == SkipLive(st[1], k, force_live)
             ov == LiveOverride(store_key, res[i].order)
             nxt == IF skip THEN st
                    ELSE IF res[i].kind \in {"error", "none"}
                    THEN <<st[1], st[2],
                           st[3] \cup {Fetched(store_key, k, res[i].kind)}>>
                    ELSE <<DictPut(st[1], k, ov), DictPut(st[2], k, ov),
                           st[3] \cup {Fetched(store_key, k, res[i].kind)}>>
         IN  FetchLoop(keys, i + 1, store_key, force_live, res, nxt)

\* _fetch_live_for_store(store_key) for the next store of the request.
\* creds_ok: resolve_store_settings_effective gave a domain and a token;
\* when it did not, the function returns before its loop (history: an
\* entry of kind "unresolved" for the store, for no order).
FetchLiveForStore(creds_ok, res) ==
    /\ ovReq.at = "fetch"
    /\ ovReq.stores /= <<>>
    /\ LET st == IF creds_ok
                 THEN FetchLoop(ovReq.keys, 1, Head(ovReq.stores),
                                ovReq.force_live, res,
                                <<ovReq.out, ORDER_OVERRIDES, ovLive>>)
                 ELSE <<ovReq.out, ORDER_OVERRIDES,
                        ovLive \cup {Fetched(Head(ovReq.stores), <<>>,
                                             "unresolved")}>>
       IN  /\ ovReq' = [ovReq EXCEPT !.out = st[1], !.stores = Tail(@)]
           /\ ORDER_OVERRIDES' = st[2]
           /\ ovLive' = st[3]
    /\ UNCHANGED <<brokerVars, relayVars, agentVars, probe>>

\* return {"ok": True, "overrides": out}: the request stays, at "done",
\* with the response in out, until the next request.
GetOverridesReturn ==
    /\ ovReq.at = "fetch"
    /\ ovReq.stores = <<>>
    /\ ovReq' = [ovReq EXCEPT !.at = "done"]
    /\ UNCHANGED <<brokerVars, relayVars, agentVars, ORDER_OVERRIDES, ovLive,
                   probe>>

LiveAnswers ==
    {[kind |-> "order", order |-> o] : o \in RawOrders}
    \cup {[kind |-> k, order |-> RawNameOnly] : k \in {"error", "none"}}

OverridesNext ==
    \/ \E store_key \in ShopStoreKeys, name \in OrderNames,
          data \in RawOrders :
          orders_update_webhook(TRUE, store_key, name, data)
    \/ \E hmac_ok \in BOOLEAN, name \in {<<>>, <<"7">>} :
          /\ ~hmac_ok \/ name = <<>>
          /\ orders_update_webhook(hmac_ok, "irranova", name, RawFull)
    \/ \E orders \in OrderLists, store \in StoreKeys, f \in BOOLEAN :
          GetOverridesStart(orders, store, f)
    \/ \E creds_ok \in BOOLEAN,
          res \in [1..Len(ovReq.keys) -> LiveAnswers] :
          FetchLiveForStore(creds_ok, res)
    \/ GetOverridesReturn

(***************************************************************************)
(* Agent (agent/poller.py): main() polls the broker for PC_ID and, for     *)
(* each job of the batch in turn, runs print_locally() and then acks or    *)
(* requeues.  Every HTTP call is one step.  The broker it talks to is the  *)
(* backend's; what /api/overrides, /api/print-data and the print sink      *)
(* answer is the environment's choice.  Sleeps are not modelled.           *)
(***************************************************************************)
PC_ID == "pc-lab-1"
PC_SECRET == "SECRET1"

\* The agent's API_KEY, set to the broker's key; a deployment that leaves
\* it unset or wrong makes every requeue a failing call (see RequeueJob).
AGENT_API_KEY == "CHANGE_ME_API_KEY"

\* Jobs a producer enqueues for the agent's PC.
AgentPayloads ==
    { ScenarioA,
      [orders |-> << <<"#", "7">> >>, copies |-> 0,
       pdf_url |-> None, store |-> "irranova"],
      [orders |-> << <<"8">> >>, copies |-> 1,
       pdf_url |-> "u", store |-> "irrakids"] }

\* Records /api/overrides may hold for an order: a complete one and one
\* with a name but no contact.
OvSamples ==
    { LiveOverride("irranova", RawFull),
      LiveOverride("irranova", RawNameOnly) }

\* print_locally._is_complete, on overrides.get(k)
is_complete(overrides, k) ==
    /\ k \in DOMAIN overrides
    /\ LET ov == overrides[k]
           cust == ov.customer
           shp == ov.shippingAddress
           name_ok == Truthy(Or(strip(Or(cust.displayName, "")),
                                strip(Or(shp.name, ""))))
           contact_ok ==
               Truthy(Or(strip(Or(cust.email, Or(ov.email, ""))),
                         strip(Or(cust.phone,
                                  Or(ov.phone, Or(shp.phone, ""))))))
       IN  name_ok /\ contact_ok

\* The values of a text field of an override record: absent or null, the
\* empty string, white space, text.
FieldVals == {None, "", " ", "x"}

\* Override records with every combination of their seven text fields.
OvRecords ==
    { [store |-> "irranova",
       customer |-> [displayName |-> dn, email |-> ce, phone |-> cp],
       shippingAddress |-> [name |-> sn, phone |-> sp],
       email |-> re, phone |-> rp] :
      dn \in FieldVals, ce \in FieldVals, cp \in FieldVals,
      sn \in FieldVals, sp \in FieldVals,
      re \in FieldVals, rp \in FieldVals }

\* A record reaches both completeness checks: the agent's, on the overrides
\* of an answer that holds it, and the backend's, on the seeded result.
CheckComplete ==
    /\ probe.at = "record"
    /\ probe' = [probe EXCEPT
                    !.at = "checked",
                    !.agent = is_complete([k \in {<<"7">>} |-> probe.ov],
                                          <<"7">>),
                    !.backend = override_is_complete(probe.ov)]
    /\ UNCHANGED <<brokerVars, relayVars, agentVars,
                   ORDER_OVERRIDES, ovReq, ovLive>>

\* [str(o).lstrip("#") for o in orders]
StripAll(orders) == [i \in 1..Len(orders) |-> lstrip(orders[i])]

\* keep the elements of s that satisfy Test (a list comprehension)
RECURSIVE Missing(_, _)
Missing(orders, overrides) ==
    IF orders = <<>> THEN <<>>
    ELSE LET k == lstrip(Head(orders))
             rest == Missing(Tail(orders), overrides)
         IN  IF is_complete(overrides, k) THEN rest ELSE <<k>> \o rest

\* (store or "").strip().lower()
StoreKey(store) == lower(strip(Or(store, "")))

\* Mutant: the gate decided on the store as the job spells it.
RequireOverridesAsWritten(store) == Or(store, "") \in {"irranova", ""}

\* require_overrides
RequireOverrides(store) == StoreKey(store) \in {"irranova", ""}

\* Mutant: a schedule whose last attempt reads the cache.
AttemptsNoForce == <<FALSE, TRUE, FALSE>>

\* Mutant: a schedule of four attempts.
AttemptsFour == <<FALSE, TRUE, TRUE, TRUE>>

\* attempts = [False, True, True]
Attempts == <<FALSE, TRUE, TRUE>>

\* overrides.update(ov2)
DictUpdate(d, e) ==
    [k \in DOMAIN d \cup DOMAIN e |-> IF k \in DOMAIN e THEN e[k] ELSE d[k]]

\* What GET /api/overrides may answer for these orders: a record for any
\* of them.
OvResponses(orders) ==
    UNION { [ks -> OvSamples] : ks \in SUBSET Range(StripAll(orders)) }

\* JSON values of a field of the print sink's answer.
JsonVals == {"absent", "true", "false", "null", "one"}

\* Python truthiness of a JSON value
JsonTruthy(v) == v \in {"true", "one"}

\* dict.get(key, default) on a field that may be absent
JsonGet(v, default) == IF v = "absent" THEN default ELSE v

\* What POST /print/orders may do: kind "raise" (the request failed or the
\* status was an error), "object" (a JSON object with these fields),
\* "text" (a body that is no JSON: data = {}), "array" (a non-empty JSON
\* array, on which data.get raises).
NoSink == [kind |-> "none", ok |-> "absent", skipped_all |-> "absent"]

SinkResponses ==
    { [kind |-> "object", ok |-> o, skipped_all |-> k] :
         o \in JsonVals, k \in JsonVals }
    \cup { [NoSink EXCEPT !.kind = k] : k \in {"raise", "text", "array"} }

\* print_locally, from the answer of the print sink on: whether it raises
SinkRaises(resp) == resp.kind \in {"raise", "array"}

\* Mutant: only an explicit ok:false or skipped_all:true is a failure.
SinkPrintedUnlessFalse(resp) ==
    /\ ~SinkRaises(resp)
    /\ resp.ok /= "false"
    /\ resp.skipped_all /= "true"

\* print_locally, from the answer of the print sink on: its return value
SinkPrinted(resp) ==
    /\ ~SinkRaises(resp)
    /\ JsonTruthy(JsonGet(resp.ok, "true"))
    /\ ~JsonTruthy(JsonGet(resp.skipped_all, "null"))

\* Mutant: a requeue that always asks for one copy.
RequeuePayloadOneCopy(orders, copies, store) ==
    [orders |-> StripAll(orders),
     copies |-> 1,
     pdf_url |-> None,
     store |-> IF Truthy(store) THEN store ELSE None]

\* Mutant: a requeue that drops the store.
RequeuePayloadNoStore(orders, copies, store) ==
    [orders |-> StripAll(orders),
     copies |-> IF copies /= 0 THEN copies ELSE 1,
     pdf_url |-> None,
     store |-> None]

\* Mutant: a requeue that sends a pdf_url.
RequeuePayloadWithPdf(orders, copies, store) ==
    [orders |-> StripAll(orders),
     copies |-> IF copies /= 0 THEN copies ELSE 1,
     pdf_url |-> "u",
     store |-> IF Truthy(store) THEN store ELSE None]

\* The body requeue_job posts to /enqueue.
RequeuePayload(orders, copies, store) ==
    [orders |-> StripAll(orders),
     copies |-> IF copies /= 0 THEN copies ELSE 1,
     pdf_url |-> None,
     store |-> IF Truthy(store) THEN store ELSE None]

NoRequeue == [called |-> FALSE, payload |-> None, ok |-> FALSE, job_id |-> 0]

AgentIdle ==
    [at |-> "pull", jobs |-> <<>>, i |-> 0, idx |-> 0, overrides |-> << >>,
     fetches |-> <<>>, resp |-> NoSink,
     why |-> "none", req |-> NoRequeue, abort |-> FALSE]

\* Mutant: an agent that an exception ends.
SleepingUnlessError(why) ==
    [AgentIdle EXCEPT !.at = IF why = "error" THEN "exit" ELSE "sleep",
                      !.why = why]

\* main, in time.sleep: why is "interval" (the end of a turn of the loop,
\* PULL_INTERVAL_SEC) or "error" (the except branch, 3 seconds).
Sleeping(why) == [AgentIdle EXCEPT !.at = "sleep", !.why = why]

Job == ag.jobs[ag.i]

\* The locals of the loop body for job i of the batch.
StartJob(jobs, i) ==
    [AgentIdle EXCEPT !.at = "print_data", !.jobs = jobs, !.i = i]

NoCalls == [sink |-> 0, ack |-> 0, requeue |-> 0]

Logged(field) ==
    [jlog EXCEPT ![Job.job_id] = [@ EXCEPT ![field] = @ + 1]]

AgentInit ==
    /\ ag = AgentIdle
    /\ jlog = << >>

\* jobs = pull_jobs(): the call reaches the broker, or it fails.  An empty
\* batch leads to the sleep of the loop, a failed call or a status that is
\* no success to the sleep of the except branch.
PullJobs ==
    /\ ag.at = "pull"
    /\ \/ /\ pull(PC_ID, PC_SECRET, DefaultMaxItems)
          /\ ag' = IF last'.status /= 200 THEN Sleeping("error")
                   ELSE IF last'.out /= <<>> THEN StartJob(last'.out, 1)
                   ELSE Sleeping("interval")
          /\ jlog' = IF last'.status = 200
                     THEN [j \in DOMAIN jlog \cup Ids(last'.out) |->
                             IF j \in DOMAIN jlog THEN jlog[j] ELSE NoCalls]
                     ELSE jlog
       \/ /\ ag' = Sleeping("error")
          /\ UNCHANGED <<brokerVars, jlog>>
    /\ UNCHANGED <<relayVars, ovVars>>

\* print_locally: GET /api/print-data (best effort).  Whatever it answers,
\* and whether it fails, print_locally goes on to the overrides; the data
\* only travels in the body posted to the print sink.
FetchPrintData ==
    /\ ag.at = "print_data"
    /\ ag' = [ag EXCEPT !.at = IF RequireOverrides(Job.store)
                               THEN "gate" ELSE "plain"]
    /\ UNCHANGED <<brokerVars, relayVars, ovVars, jlog>>

\* Mutant: a gate that prints whatever is missing.
AfterGatePrintAnyway(a, overrides) == [a EXCEPT !.at = "sink"]

\* Mutant: a gate that also blocks a job without orders.
AfterGateBlocksEmpty(a, overrides) ==
    IF Missing(Job.orders, overrides) /= <<>> \/ Job.orders = <<>>
    THEN [a EXCEPT !.at = "requeue", !.why = "blocked"]
    ELSE [a EXCEPT !.at = "sink"]

\* The final check of the gate: print, or return False.
AfterGate(a, overrides) ==
    IF Missing(Job.orders, overrides) /= <<>>
    THEN [a EXCEPT !.at = "requeue", !.why = "blocked"]
    ELSE [a EXCEPT !.at = "sink"]

\* print_locally: one turn of "for idx, force in enumerate(attempts)", and
\* what follows the loop up to the next request.  raised: the call failed
\* and _fetch_overrides returned {}.
GateAttempt(raised, response) ==
    /\ ag.at = "gate"
    /\ LET force == Attempts[ag.idx + 1]
           overrides == IF raised THEN << >> ELSE response
           all_ok == Missing(Job.orders, overrides) = <<>>
           a == [ag EXCEPT !.overrides = overrides,
                           !.fetches = Append(@,
                               [store |-> Or(Job.store, None),
                                force_live |-> force,
                                orders |-> StripAll(Job.orders)])]
       IN  ag' = IF ~all_ok /\ ag.idx + 1 < Len(Attempts)
                 THEN [a EXCEPT !.idx = @ + 1]
                 ELSE IF ~all_ok /\ StoreKey(Job.store) = ""
                 THEN [a EXCEPT !.at = "fallback"]
                 ELSE AfterGate(a, overrides)
    /\ UNCHANGED <<brokerVars, relayVars, ovVars, jlog>>

\* print_locally: the explicit irranova fallback for the missing orders
FallbackFetch(raised, response) ==
    /\ ag.at = "fallback"
    /\ LET missing == Missing(Job.orders, ag.overrides)
           overrides == IF raised THEN ag.overrides
                        ELSE DictUpdate(ag.overrides, response)
           a == [ag EXCEPT !.overrides = overrides,
                           !.fetches = Append(@,
                               [store |-> "irranova", force_live |-> TRUE,
                                orders |-> missing])]
       IN  ag' = AfterGate(a, overrides)
    /\ UNCHANGED <<brokerVars, relayVars, ovVars, jlog>>

\* print_locally: the single best-effort fetch of a store that is not gated
PlainFetch(raised, response) ==
    /\ ag.at = "plain"
    /\ LET overrides == IF raised THEN << >> ELSE response
       IN  ag' = [ag EXCEPT !.at = "sink", !.overrides = overrides,
                            !.fetches = Append(@,
                                [store |-> Or(Job.store, None),
                                 force_live |-> FALSE,
                                 orders |-> StripAll(Job.orders)])]
    /\ UNCHANGED <<brokerVars, relayVars, ovVars, jlog>>

\* Mutant: a print call that raised is made again.
PrintSinkRetries(resp) ==
    /\ ag.at = "sink"
    /\ jlog' = Logged("sink")
    /\ ag' = IF SinkRaises(resp) THEN ag
             ELSE [ag EXCEPT !.resp = resp,
                        !.at = IF SinkPrinted(resp) THEN "ack" ELSE "requeue",
                        !.why = IF SinkPrinted(resp) THEN "printed"
                                ELSE "reported"]
    /\ UNCHANGED <<brokerVars, relayVars, ovVars>>

\* print_locally: POST /print/orders and the reading of its answer; main:
\* printed, or "Local print error".
PrintSink(resp) ==
    /\ ag.at = "sink"
    /\ jlog' = Logged("sink")
    /\ ag' = [ag EXCEPT !.resp = resp,
                        !.at = IF SinkPrinted(resp) THEN "ack" ELSE "requeue",
                        !.why = IF SinkPrinted(resp) THEN "printed"
                                ELSE IF SinkRaises(resp) THEN "raised"
                                ELSE "reported"]
    /\ UNCHANGED <<brokerVars, relayVars, ovVars>>

\* main: ack_job(job.get("job_id")).  The call reaches the broker, or it
\* fails; either way a status that is no success raises, and the exception
\* leaves the for loop.
AckJob ==
    /\ ag.at = "ack"
    /\ jlog' = Logged("ack")
    /\ \/ /\ ack(PC_ID, PC_SECRET, Job.job_id)
          /\ ag' = [ag EXCEPT !.at = "job_done",
                              !.abort = last'.status /= 200]
       \/ /\ ag' = [ag EXCEPT !.at = "job_done", !.abort = TRUE]
          /\ UNCHANGED brokerVars
    /\ UNCHANGED <<relayVars, ovVars>>

\* main: requeue_job(orders, copies, store).  The call reaches the broker,
\* or it fails; requeue_job returns whether the status was a success.
RequeueJob ==
    /\ ag.at = "requeue"
    /\ jlog' = Logged("requeue")
    /\ LET payload == RequeuePayload(Job.orders, Job.copies, Job.store)
           header == IF Truthy(AGENT_API_KEY) THEN AGENT_API_KEY ELSE None
       IN  \/ /\ enqueue(PC_ID, payload, header)
              /\ ag' = [ag EXCEPT !.at = "job_done",
                           !.req = [called |-> TRUE, payload |-> payload,
                                    ok |-> last'.status = 200,
                                    job_id |-> last'.job_id]]
           \/ /\ ag' = [ag EXCEPT !.at = "job_done",
                           !.req = [called |-> TRUE, payload |-> payload,
                                    ok |-> FALSE, job_id |-> 0]]
              /\ UNCHANGED brokerVars
    /\ UNCHANGED <<relayVars, ovVars>>

\* Mutant: a failed requeue is tried again at once.
NextJobRetries ==
    /\ ag.at = "job_done"
    /\ ag' = IF ag.req.called /\ ~ag.req.ok THEN [ag EXCEPT !.at = "requeue"]
             ELSE IF ag.abort THEN Sleeping("error")
             ELSE IF ag.i < Len(ag.jobs) THEN StartJob(ag.jobs, ag.i + 1)
             ELSE Sleeping("interval")
    /\ UNCHANGED <<brokerVars, relayVars, ovVars, jlog>>

\* main: the next job of the batch; after the last one the sleep of the
\* loop, after an exception the sleep of the except branch.
NextJob ==
    /\ ag.at = "job_done"
    /\ ag' = IF ag.abort THEN Sleeping("error")
             ELSE IF ag.i < Len(ag.jobs) THEN StartJob(ag.jobs, ag.i + 1)
             ELSE Sleeping("interval")
    /\ UNCHANGED <<brokerVars, relayVars, ovVars, jlog>>

\* main: time.sleep returns; the next turn of "while True".
Sleep ==
    /\ ag.at = "sleep"
    /\ ag' = AgentIdle
    /\ UNCHANGED <<brokerVars, relayVars, ovVars, jlog>>

\* A producer enqueues a job for the agent's PC.
Produce ==
    /\ \E body \in AgentPayloads : enqueue(PC_ID, body, "CHANGE_ME_API_KEY")
    /\ UNCHANGED <<relayVars, ovVars, agentVars>>

\* The steps of the agent.
AgentStep ==
    \/ PullJobs
    \/ FetchPrintData
    \/ /\ ag.at = "gate"
       /\ \E raised \in BOOLEAN, r \in OvResponses(Job.orders) :
             (raised => r = << >>) /\ GateAttempt(raised, r)
    \/ /\ ag.at = "fallback"
       /\ \E raised \in BOOLEAN,
             r \in OvResponses(Missing(Job.orders, ag.overrides)) :
             (raised => r = << >>) /\ FallbackFetch(raised, r)
    \/ /\ ag.at = "plain"
       /\ \E raised \in BOOLEAN, r \in OvResponses(Job.orders) :
             (raised => r = << >>) /\ PlainFetch(raised, r)
    \/ \E resp \in SinkResponses : PrintSink(resp)
    \/ AckJob
    \/ RequeueJob
    \/ NextJob
    \/ Sleep

AgentNext == Produce \/ AgentStep

\* A producer that enqueues MaxProduced jobs at most, at any time, for a
\* store that is gated with the fallback or for one that is not gated;
\* requeues come on top.
ProduceFew ==
    /\ nextJid <= MaxProduced
    /\ \E body \in {b \in AgentPayloads : b.store /= "irranova"} :
          enqueue(PC_ID, body, "CHANGE_ME_API_KEY")
    /\ UNCHANGED <<relayVars, ovVars, agentVars>>

AgentFairNext == ProduceFew \/ AgentStep

\* One job is enqueued for the agent's PC, and no other.
ProduceSeed ==
    /\ nextJid = 1
    /\ \E body \in AgentPayloads : enqueue(PC_ID, body, "CHANGE_ME_API_KEY")
    /\ UNCHANGED <<relayVars, ovVars, agentVars>>

\* A print sink that never prints: every answer is a failure.
PrintSinkFails ==
    \E resp \in {r \in SinkResponses : ~SinkPrinted(r)} : PrintSink(resp)

\* A requeue whose enqueue call succeeds.
RequeueJobOk == RequeueJob /\ ag'.req.ok

\* The agent with a job that never gets printed: the overrides are what
\* they are, the print sink always fails, every requeue succeeds.
StuckNext ==
    \/ ProduceSeed
    \/ PullJobs
    \/ FetchPrintData
    \/ /\ ag.at = "gate"
       /\ \E raised \in BOOLEAN, r \in OvResponses(Job.orders) :
             (raised => r = << >>) /\ GateAttempt(raised, r)
    \/ /\ ag.at = "fallback"
       /\ \E raised \in BOOLEAN,
             r \in OvResponses(Missing(Job.orders, ag.overrides)) :
             (raised => r = << >>) /\ FallbackFetch(raised, r)
    \/ /\ ag.at = "plain"
       /\ \E raised \in BOOLEAN, r \in OvResponses(Job.orders) :
             (raised => r = << >>) /\ PlainFetch(raised, r)
    \/ PrintSinkFails
    \/ RequeueJobOk
    \/ NextJob
    \/ Sleep

\* Jobs of one order for stores in several spellings.
StorePayloads ==
    { [orders |-> << <<"8">> >>, copies |-> 1, pdf_url |-> None, store |-> st] :
      st \in {" Irranova ", " ", "", "irrakids"} }

\* A producer of MaxProduced jobs at most, for these stores.
ProduceStores ==
    /\ nextJid <= MaxProduced
    /\ \E body \in StorePayloads : enqueue(PC_ID, body, "CHANGE_ME_API_KEY")
    /\ UNCHANGED <<relayVars, ovVars, agentVars>>

AgentStoresNext == ProduceStores \/ AgentStep

\* Jobs without orders, for gated stores and for one that is not, and a
\* job with an order and an empty store.
EmptyPayloads ==
    { [orders |-> << >>, copies |-> 1, pdf_url |-> None, store |-> st] :
      st \in {"irranova", None, "", "irrakids"} }
    \cup { [orders |-> << <<"8">> >>, copies |-> 1, pdf_url |-> None,
            store |-> ""] }

\* A producer of MaxProduced jobs at most, from these payloads.
ProduceEmpty ==
    /\ nextJid <= MaxProduced
    /\ \E body \in EmptyPayloads : enqueue(PC_ID, body, "CHANGE_ME_API_KEY")
    /\ UNCHANGED <<relayVars, ovVars, agentVars>>

AgentEmptyNext == ProduceEmpty \/ AgentStep

(***************************************************************************)
(* Properties of the broker                                                *)
(***************************************************************************)
AllDelivered ==
    UNION {Ids(delivered[p]) : p \in DOMAIN PCS}

NoRepeat(s) ==
    \A i, j \in 1..Len(s) : i /= j => s[i].job_id /= s[j].job_id

\* C1: a job id that some pull has returned is in no queue and is never
\* returned again, by any pull for any pc_id, whatever requests follow; a
\* consumer that stops after its pull (no ack, no enqueue) therefore never
\* sees the job again.
C1_NeverRedelivered ==
    /\ \A p \in DOMAIN PCS : NoRepeat(delivered[p])
    /\ \A p1, p2 \in DOMAIN PCS :
          p1 /= p2 => Ids(delivered[p1]) \cap Ids(delivered[p2]) = {}
    /\ \A p \in DOMAIN JOBS : Ids(JOBS[p]) \cap AllDelivered = {}

\* A later pull for the same pc_id returned jobs after an earlier pull did.
C1_Witness ==
    /\ last.op = "pull" /\ last.status = 200 /\ last.out /= <<>>
    /\ Len(delivered[last.pc]) > Len(last.out)

\* C2: for every pc_id the concatenation of its pull results is a prefix
\* of the jobs enqueued for it, in enqueue order.
C2_Fifo ==
    \A p \in DOMAIN PCS : IsPrefix(delivered[p], accepted[p])

\* Three jobs enqueued for one PC, two of them pulled, one still queued.
C2_Witness ==
    \E p \in DOMAIN PCS :
        /\ Len(accepted[p]) = 3
        /\ Len(delivered[p]) = 2
        /\ Len(Queue(p)) = 1

\* C3: pull(max_items=N) directly followed by pull(max_items=M) for the
\* same pc_id returns two disjoint lists whose concatenation is the first
\* min(total, N+M) jobs of the queue the first pull found, for every N
\* and M.
C3_TwoPulls ==
    [][ ( /\ last.op = "pull" /\ last.status = 200
          /\ last'.op = "pull" /\ last'.status = 200
          /\ last'.pc = last.pc )
        => /\ Ids(last.out) \cap Ids(last'.out) = {}
           /\ last.out \o last'.out =
                SubSeq(last.before, 1,
                       Min(Len(last.before), last.n + last'.n)) ]_vars

\* C34: an authorized pull splits the queue in two for every max_items,
\* positive, zero or negative: the list it returns followed by the queue
\* it leaves is the queue it found, so that no job is dropped and no job
\* returned stays queued.
C34_PullPartitions ==
    (last.op = "pull" /\ last.status = 200)
       => /\ last.out \o Queue(last.pc) = last.before
          /\ Ids(last.out) \cap Ids(Queue(last.pc)) = {}

\* A pull with a negative max_items that returned a part of the queue and
\* left the rest.
C34_Witness ==
    /\ last.op = "pull" /\ last.status = 200
    /\ last.n < 0
    /\ last.out /= <<>>
    /\ Queue(last.pc) /= <<>>

\* C35: the queues of different PCs are isolated: a request for one pc_id
\* (enqueue, pull or ack, accepted or rejected) leaves the queue of every
\* other pc_id as it was, and a pull returns only jobs that were enqueued
\* for its pc_id.
C35_QueuesIsolated ==
    /\ [][ \A p \in DOMAIN PCS :
             p /= last'.pc => Queue(p)' = Queue(p) ]_vars
    /\ [] ( (last.op = "pull" /\ last.status = 200)
              => /\ Ids(last.out) \subseteq Ids(accepted[last.pc])
                 /\ \A p \in DOMAIN PCS :
                       p /= last.pc
                          => Ids(last.out) \cap Ids(accepted[p]) = {} )

\* A pull has returned jobs of one PC while jobs of another PC are queued.
C35_Witness ==
    /\ last.op = "pull" /\ last.status = 200
    /\ last.out /= <<>>
    /\ \E p \in DOMAIN PCS : p /= last.pc /\ Queue(p) /= <<>>

(***************************************************************************)
(* Properties of the agent                                                 *)
(***************************************************************************)
\* The agent is past the gate of its current job.
InJob == ag.i >= 1

Calls == jlog[Job.job_id]

Gated == InJob /\ (Job.store = "irranova" \/ Job.store = None)

\* the same orders, copies and store as the current job, under another id
Redelivers(j) ==
    /\ j.job_id /= Job.job_id
    /\ j.orders = Job.orders
    /\ j.copies = Job.copies
    /\ j.store = Job.store

C5_RequeueOnce ==
    /\ [] ( (InJob /\ ag.why \in {"blocked", "raised", "reported"})
              => /\ ag.at \in {"requeue", "job_done"}
                 /\ Calls.ack = 0
                 /\ Calls.requeue = IF ag.at = "job_done" THEN 1 ELSE 0 )
    /\ [][ (ag.at = "requeue" /\ ag'.at = "job_done")
              => /\ ag'.req.payload.orders =
                       [i \in 1..Len(Job.orders) |-> lstrip(Job.orders[i])]
                 /\ ag'.req.payload.copies = Job.copies
                 /\ ag'.req.payload.store = Job.store
                 /\ last'.op = "enqueue" => last'.pc = PC_ID
                 /\ IF ag'.req.ok
                    THEN /\ Len(Queue(PC_ID)') = Len(Queue(PC_ID)) + 1
                         /\ SubSeq(Queue(PC_ID)', 1, Len(Queue(PC_ID)))
                               = Queue(PC_ID)
                         /\ Redelivers(Queue(PC_ID)'[Len(Queue(PC_ID)')])
                         /\ Queue(PC_ID)'[Len(Queue(PC_ID)')].job_id
                               = ag'.req.job_id
                         /\ ag'.req.job_id \notin DOMAIN jlog
                    ELSE JOBS' = JOBS ]_vars

C5_Witness ==
    /\ InJob
    /\ ag.at = "job_done"
    /\ ag.why = "reported"
    /\ ag.req.ok
    /\ Job.copies = 2
    /\ Calls.requeue = 1

\* C6: a failing ack does not block the agent: by the time the agent polls
\* again, every job of the batches it pulled has been acked or requeued.
C6_BatchProcessed ==
    ag.at = "pull"
       => \A j \in DOMAIN jlog : jlog[j].ack + jlog[j].requeue >= 1

\* C7: for every HTTP-successful print sink response whose body is a JSON
\* object or no JSON at all: if ok is absent or truthy and skipped_all is
\* absent or falsy, the job is treated as printed and is acked, never
\* requeued; otherwise it is treated as not printed and is requeued, never
\* acked.
C7_SinkDecides ==
    (InJob /\ ag.resp.kind \in {"object", "text"})
       => IF /\ ag.resp.ok \in {"absent", "true", "one"}
             /\ ag.resp.skipped_all \in {"absent", "false", "null"}
          THEN /\ ag.why = "printed"
               /\ ag.at \in {"ack", "job_done"}
               /\ Calls.requeue = 0
               /\ Calls.ack = IF ag.at = "job_done" THEN 1 ELSE 0
          ELSE /\ ag.why = "reported"
               /\ ag.at \in {"requeue", "job_done"}
               /\ Calls.ack = 0
               /\ Calls.requeue = IF ag.at = "job_done" THEN 1 ELSE 0

\* Scenario D: {ok: true, skipped_all: true} is requeued.
C7_Witness ==
    /\ InJob
    /\ ag.at = "job_done"
    /\ ag.resp.kind = "object"
    /\ ag.resp.ok = "true"
    /\ ag.resp.skipped_all = "true"
    /\ Calls.requeue = 1
    /\ Calls.ack = 0

\* C7 as stated: every HTTP-successful response without ok:false and
\* without skipped_all:true is acked, never requeued.
C7_OnlyExplicitFalseFails ==
    (InJob /\ ag.at = "job_done" /\ ag.resp.kind \in {"object", "text", "array"})
       => IF ag.resp.ok = "false" \/ ag.resp.skipped_all = "true"
          THEN Calls.requeue = 1 /\ Calls.ack = 0
          ELSE Calls.ack = 1 /\ Calls.requeue = 0

\* The overrides of the current job were incomplete on attempts 1 and 2 and
\* complete on attempt 3.
ThirdAttemptComplete ==
    /\ InJob
    /\ Job.store = "irranova"
    /\ ag.idx = 2
    /\ Len(ag.fetches) = 3
    /\ ag.why /= "blocked"

\* C8: for a job with store "irranova" whose overrides are incomplete on
\* attempts 1 and 2 and complete on attempt 3, a forced-live attempt, the
\* agent calls the print sink once; if the print sink reports success the
\* agent then calls ack for the job and never calls enqueue for it.
C8_ThirdAttemptPrints ==
    ThirdAttemptComplete
       => /\ ag.fetches[3].force_live
          /\ ag.fetches[3].store = "irranova"
          /\ ag.at \in {"sink", "ack", "requeue", "job_done"}
          /\ Calls.sink = IF ag.at = "sink" THEN 0 ELSE 1
          /\ ag.why = "printed"
               => /\ ag.at \in {"ack", "job_done"}
                  /\ Calls.ack = IF ag.at = "job_done" THEN 1 ELSE 0
                  /\ Calls.requeue = 0
                  /\ ~ag.req.called

C8_Witness ==
    /\ ThirdAttemptComplete
    /\ ag.at = "job_done"
    /\ ag.why = "printed"
    /\ Calls.sink = 1
    /\ Calls.ack = 1

\* C8 as stated: the job is printed once and acked, and never requeued.
C8_AlwaysAcked ==
    (ThirdAttemptComplete /\ ag.at = "job_done")
       => /\ Calls.sink = 1
          /\ Calls.ack = 1
          /\ Calls.requeue = 0

\* Position of job id j in a list of jobs (0: not in it).
Pos(q, j) ==
    IF j \in Ids(q) THEN CHOOSE k \in 1..Len(q) : q[k].job_id = j ELSE 0

\* C22: a job created by a requeue is at the tail of the queue.  Once the
\* requeue of a job has created job r, every job enqueued for the PC after
\* the requeued job and before r has been pulled or is queued in front of
\* r; and the jobs pulled so far followed by the queued ones are in the
\* order of their enqueues, so that each of them is pulled before r.
C22_RequeuedAtTail ==
    LET q == Queue(PC_ID)
        d == delivered[PC_ID]
    IN  /\ (InJob /\ ag.at = "job_done" /\ ag.req.ok)
             => LET r == ag.req.job_id
                IN  /\ r \in Ids(q)
                    /\ Job.job_id < r
                    /\ \A x \in Ids(accepted[PC_ID]) :
                          (Job.job_id < x /\ x < r)
                             => \/ x \in Ids(d)
                                \/ x \in Ids(q) /\ Pos(q, x) < Pos(q, r)
        /\ d \o q = accepted[PC_ID]

\* A job was enqueued while the agent held job 1, and the requeue of job 1
\* created job 3: job 2 is queued in front of it.
C22_Witness ==
    /\ InJob /\ ag.at = "job_done" /\ ag.req.ok
    /\ Job.job_id = 1
    /\ ag.req.job_id = 3
    /\ Ids(Queue(PC_ID)) = {2, 3}
    /\ Pos(Queue(PC_ID), 2) < Pos(Queue(PC_ID), 3)

\* nameOk of the specification: a non-empty customer.displayName or
\* shippingAddress.name.
NonEmpty(v) == v /= None /\ strip(v) /= ""

NameOk(ov) ==
    NonEmpty(ov.customer.displayName) \/ NonEmpty(ov.shippingAddress.name)

\* contactOk of the specification: a non-empty email or phone from the
\* customer, the root-level fields or the shipping address.
ContactOk(ov) ==
    \/ NonEmpty(ov.customer.email) \/ NonEmpty(ov.email)
    \/ NonEmpty(ov.customer.phone) \/ NonEmpty(ov.phone)
    \/ NonEmpty(ov.shippingAddress.phone)

\* C23: for every override record the agent's _is_complete and the
\* backend's _override_is_complete give the same answer, and that answer is
\* nameOk AND contactOk.
C23_CompleteAsSpecified ==
    probe.at = "checked"
       => /\ probe.agent = probe.backend
          /\ probe.agent = (NameOk(probe.ov) /\ ContactOk(probe.ov))

C25_GateBounded ==
    /\ [] ( Gated =>
             LET f == ag.fetches
                 n == Len(f)
             IN  /\ n <= (IF Job.store = None THEN 4 ELSE 3)
                 /\ \A i \in 1..Min(n, 3) :
                       /\ f[i].force_live = (i > 1)
                       /\ f[i].store = Job.store
                       /\ f[i].orders = StripAll(Job.orders)
                 /\ (ag.at = "gate" /\ n >= 1)
                       => Missing(Job.orders, ag.overrides) /= <<>>
                 /\ (ag.at \in {"sink", "ack", "requeue", "job_done"} /\ n < 3)
                       => Missing(Job.orders, ag.overrides) = <<>>
                 /\ ag.at = "fallback"
                       => /\ n = 3 /\ Job.store = None
                          /\ Missing(Job.orders, ag.overrides) /= <<>>
                 /\ n = 4
                       => /\ f[4].store = "irranova"
                          /\ f[4].force_live
                          /\ f[4].orders /= <<>> )
    /\ [][ (ag.at = "fallback" /\ ag'.at /= "fallback")
              => /\ Len(ag'.fetches) = 4
                 /\ ag'.fetches[4].orders = Missing(Job.orders, ag.overrides)
          ]_vars

\* A job without store, with two orders: three attempts left one of them
\* incomplete, the fallback fetch asked for that one and completed it.
C25_Witness ==
    /\ Gated
    /\ Job.store = None
    /\ Len(Job.orders) = 2
    /\ ag.at = "sink"
    /\ Len(ag.fetches) = 4
    /\ Len(ag.fetches[4].orders) = 1

\* C26: the gate applies exactly when the job's store, trimmed and in
\* lower case, is "irranova" or empty, or the job has no store.  A gated
\* job never takes the single best-effort fetch and reaches the print sink
\* only with every order complete; a job of any other store makes one
\* override fetch without force_live and goes to the print sink, whatever
\* the fetch returned and whether it failed, and is never blocked.
C26_GateExactly ==
    InJob =>
       IF Job.store \in {None, " ", " Irranova ", "irranova"}
       THEN /\ ag.at /= "plain"
            /\ ag.at \in {"sink", "ack", "requeue", "job_done"}
                 => /\ ag.fetches /= <<>>
                    /\ (Missing(Job.orders, ag.overrides) /= <<>>)
                          = (ag.why = "blocked")
                    /\ ag.why = "blocked" => Calls.sink = 0
       ELSE /\ ag.at \notin {"gate", "fallback"}
            /\ ag.why /= "blocked"
            /\ ag.at \in {"sink", "ack", "requeue", "job_done"}
                 => /\ Len(ag.fetches) = 1
                    /\ ~ag.fetches[1].force_live
                    /\ ag.fetches[1].store = Job.store
                    /\ Calls.sink = IF ag.at = "sink" THEN 0 ELSE 1

\* A batch of two: the job of store " Irranova " was blocked by the gate
\* and requeued without a call of the print sink; the job of store
\* "irrakids" went to the print sink with its order incomplete.
C26_Witness ==
    /\ InJob /\ ag.i = 2
    /\ ag.jobs[1].store = " Irranova "
    /\ jlog[ag.jobs[1].job_id].sink = 0
    /\ jlog[ag.jobs[1].job_id].requeue = 1
    /\ Job.store = "irrakids"
    /\ ag.at = "job_done"
    /\ Missing(Job.orders, ag.overrides) /= <<>>
    /\ Calls.sink = 1

\* C27: the jobs of a batch are processed one after another in the order
\* of the pull: while the agent is at job i every earlier job of the batch
\* has been acked or had its requeue attempted and no later job has had a
\* call made for it; and whenever the agent is about to pull, every job of
\* the batches it pulled before has been acked or had its requeue
\* attempted.
C27_BatchInOrder ==
    /\ InJob =>
          /\ \A m \in 1..(ag.i - 1) :
                jlog[ag.jobs[m].job_id].ack
                   + jlog[ag.jobs[m].job_id].requeue >= 1
          /\ \A m \in (ag.i + 1)..Len(ag.jobs) :
                jlog[ag.jobs[m].job_id] = NoCalls
    /\ ag.at = "pull" =>
          \A b \in DOMAIN jlog : jlog[b].ack + jlog[b].requeue >= 1

\* C30: every job a pull returned to the agent eventually has exactly one
\* outcome, an ack call or a requeue attempt, and never both, whatever
\* happened to the calls for the jobs before it in its batch.
C30_ExactlyOneOutcome ==
    /\ [] (\A j \in DOMAIN jlog : jlog[j].ack + jlog[j].requeue <= 1)
    /\ \A j \in 1..MaxJobs :
          (j \in DOMAIN jlog)
             ~> (j \in DOMAIN jlog /\ jlog[j].ack + jlog[j].requeue = 1)

\* C31: the agent calls the print sink at most once for a job id, whatever
\* the print call, the ack or the requeue did; a job the gate blocked is
\* not printed at all, and a job is acked only after its one print call.
C31_PrintedAtMostOnce ==
    \A j \in DOMAIN jlog :
        /\ jlog[j].sink <= 1
        /\ jlog[j].ack >= 1 => jlog[j].sink = 1

\* Two jobs were printed once each and done with: for one the requeue of a
\* failed print, for the other an ack; the agent has pulled again since.
C31_Witness ==
    /\ ag.at = "print_data"
    /\ \E j1, j2 \in DOMAIN jlog :
          /\ j1 /= j2 /\ j1 /= Job.job_id /\ j2 /= Job.job_id
          /\ jlog[j1].sink = 1 /\ jlog[j1].requeue = 1
          /\ jlog[j2].sink = 1 /\ jlog[j2].ack = 1

\* The jobs of the PC in circulation: those queued, and the one the agent
\* holds and has not requeued yet.
InCirculation ==
    Len(Queue(PC_ID))
      + (IF InJob /\ Calls.requeue = 0 THEN 1 ELSE 0)

\* C32: a job whose gate never passes or whose print always fails, with
\* every requeue succeeding, is never printed and never acked; each poll
\* cycle that takes it replaces it by one new job with the same orders,
\* copies and store, so that exactly one descendant is queued or in the
\* agent's hands at any time, its queue never stays drained, and the number
\* of requeues grows with every cycle.
C32_RequeuedForever ==
    LET acc == accepted[PC_ID] IN
    /\ \A j \in DOMAIN jlog :
          /\ jlog[j].ack = 0
          /\ jlog[j].requeue <= 1
    /\ InJob => ag.why /= "printed"
    /\ acc /= <<>> => InCirculation = 1
    /\ \A m \in 1..Len(acc) :
          /\ acc[m].orders = acc[1].orders
          /\ acc[m].copies = acc[1].copies
          /\ acc[m].store = acc[1].store
    /\ \A m \in 1..Len(acc) :
          m < Len(acc) => /\ acc[m].job_id \in DOMAIN jlog
                          /\ jlog[acc[m].job_id].requeue = 1

\* The job is in its MaxJobs-th generation: each generation before was
\* pulled and requeued once, one by the gate and one by the print sink.
C32_Witness ==
    /\ Len(accepted[PC_ID]) = MaxJobs
    /\ Queue(PC_ID) /= <<>>
    /\ \E j1, j2 \in DOMAIN jlog :
          /\ jlog[j1].requeue = 1 /\ jlog[j1].sink = 0
          /\ jlog[j2].requeue = 1 /\ jlog[j2].sink = 1

\* C36: the job a requeue creates has pdf_url null whatever pdf_url the
\* original job carried, and the original's orders, copies and store.
C36_RequeueDropsPdfUrl ==
    (InJob /\ ag.at = "job_done" /\ ag.req.ok)
       => LET acc == accepted[PC_ID]
              n == Pos(acc, ag.req.job_id)
          IN  /\ n /= 0
              /\ acc[n].pdf_url = None
              /\ acc[n].orders = Job.orders
              /\ acc[n].copies = Job.copies
              /\ acc[n].store = Job.store

\* A job with a pdf_url was requeued: the new job has none.
C36_Witness ==
    /\ InJob /\ ag.at = "job_done" /\ ag.req.ok
    /\ Job.pdf_url = "u"
    /\ \E n \in 1..Len(accepted[PC_ID]) :
          /\ accepted[PC_ID][n].job_id = ag.req.job_id
          /\ accepted[PC_ID][n].pdf_url = None

\* C21: no failure of a pull, an override fetch, the print-data fetch, the
\* print sink call, an ack or a requeue ends the agent: it always comes
\* back to its sleep and from there to another pull, again and again.
C21_PullsForever ==
    /\ []<>(ag.at = "sleep")
    /\ []<>(ag.at = "pull")
    /\ [](ag.at \in {"pull", "sleep", "print_data", "gate", "fallback",
                     "plain", "sink", "ack", "requeue", "job_done"})

\* The agent sleeps after an exception, with jobs it pulled behind it.
C21_Witness ==
    /\ ag.at = "sleep"
    /\ ag.why = "error"
    /\ \E j \in DOMAIN jlog : jlog[j].ack = 1

(***************************************************************************)
(* Properties of the override cache                                        *)
(***************************************************************************)
\* C9: a cached record that is complete is never replaced by an incomplete
\* one, by a webhook push or by a live fetch, in any interleaving.
C9_NeverDowngraded ==
    [][ \A k \in DOMAIN ORDER_OVERRIDES :
          override_is_complete(ORDER_OVERRIDES[k])
          => /\ k \in DOMAIN ORDER_OVERRIDES'
             /\ override_is_complete(ORDER_OVERRIDES'[k]) ]_vars

\* C19: when a getOverrides call without force_live has returned a
\* complete record for an order and the cache still holds that record, the
\* next call without force_live makes no live fetch for the order, returns
\* the same record and does not write the order's cache entry.
C19_CachedNotRefetched ==
    /\ [][ \A k \in Range(ovReq'.keys) :
             ( /\ ovReq.at = "done" /\ ovReq'.at = "fetch"
               /\ ~ovReq.force_live /\ ~ovReq'.force_live
               /\ k \in DOMAIN ovReq.out
               /\ override_is_complete(ovReq.out[k])
               /\ k \in DOMAIN ORDER_OVERRIDES
               /\ ORDER_OVERRIDES[k] = ovReq.out[k] )
             => /\ k \in DOMAIN ovReq'.out
                /\ ovReq'.out[k] = ovReq.out[k]
                /\ ORDER_OVERRIDES' = ORDER_OVERRIDES ]_vars
    /\ [][ \A k \in Range(ovReq.keys) :
             ( /\ ovReq.at = "fetch"
               /\ ovReq' /= ovReq
               /\ ~ovReq.force_live
               /\ k \in DOMAIN ovReq.out
               /\ override_is_complete(ovReq.out[k]) )
             => /\ \A f \in ovLive' \ ovLive : f.k /= k
                /\ ovReq'.out[k] = ovReq.out[k]
                /\ k \in DOMAIN ORDER_OVERRIDES
                      => ORDER_OVERRIDES'[k] = ORDER_OVERRIDES[k] ]_vars

\* A second call without force_live has returned the complete record of
\* order 7 that the call before it returned, without a live fetch for it.
C19_Witness ==
    /\ ovReq.at = "done"
    /\ ~ovReq.force_live
    /\ <<"7">> \in ovReq.known \cap Range(ovReq.keys)
    /\ ovReq.out[<<"7">>] = ORDER_OVERRIDES[<<"7">>]
    /\ override_is_complete(ovReq.out[<<"7">>])
    /\ \A f \in ovLive : f.k /= <<"7">>

\* C20: in getOverrides a live fetch that fails for one order does not end
\* the batch: every other requested order that is due is still fetched,
\* and returned when the shop has it; the failing order's cache entry and
\* its entry in the result stay as they were; the call returns its result;
\* and the agent's _is_complete is false for an order without a record in
\* the result.
C20_FailureSkipsOneOrder ==
    /\ [][ (ovReq.at = "fetch" /\ ovReq'.at = "fetch" /\ ovReq' /= ovReq)
             => LET new == ovLive' \ ovLive IN
                \A f \in new :
                   f.kind = "error"
                   => /\ f.k \in DOMAIN ORDER_OVERRIDES' <=>
                            f.k \in DOMAIN ORDER_OVERRIDES
                      /\ f.k \in DOMAIN ORDER_OVERRIDES
                            => ORDER_OVERRIDES'[f.k] = ORDER_OVERRIDES[f.k]
                      /\ f.k \in DOMAIN ovReq'.out <=> f.k \in DOMAIN ovReq.out
                      /\ f.k \in DOMAIN ovReq.out
                            => ovReq'.out[f.k] = ovReq.out[f.k]
                      /\ \A k \in Range(ovReq.keys) :
                            ( \/ ovReq.force_live
                              \/ k \notin DOMAIN ovReq.out
                              \/ ~override_is_complete(ovReq.out[k]) )
                            => \E g \in new : g.k = k
                      /\ \A g \in new :
                            g.kind = "order"
                            => /\ g.k \in DOMAIN ovReq'.out
                               /\ ovReq'.out[g.k].store = g.store
                               /\ ORDER_OVERRIDES'[g.k] = ovReq'.out[g.k] ]_vars
    /\ [][ (ovReq.at = "fetch" /\ ovReq'.at /= "fetch")
             => ovReq'.at = "done" /\ ovReq'.out = ovReq.out ]_vars
    /\ [] ( \A k \in Range(ovReq.keys) :
               k \notin DOMAIN ovReq.out => ~is_complete(ovReq.out, k) )

\* The fetch for order 7 failed, order 8 was fetched and is in the result,
\* order 7 is not.
C20_Witness ==
    /\ ovReq.at = "done"
    /\ \E f \in ovLive : f.k = <<"7">> /\ f.kind = "error"
    /\ \E f \in ovLive : f.k = <<"8">> /\ f.kind = "order"
    /\ <<"8">> \in DOMAIN ovReq.out
    /\ <<"7">> \notin DOMAIN ovReq.out

\* The orders of the request that are due for a live fetch: all of them
\* with force_live, else those without a complete record in the result.
Due ==
    {k \in Range(ovReq.keys) :
        \/ ovReq.force_live
        \/ k \notin DOMAIN ovReq.out
        \/ ~override_is_complete(ovReq.out[k])}

\* The orders the pass over the next store of the request fetched live.
FetchedNow ==
    {f.k : f \in {g \in ovLive' \ ovLive : g.kind /= "unresolved"}}

\* C28: in the pass of getOverrides over a store whose settings resolve to
\* a domain and a token, a live fetch is attempted for a requested order if
\* and only if force_live is set or the order has no record or an
\* incomplete one in the result; with force_live every requested order is
\* fetched, complete or not.  For a store whose settings do not resolve no
\* order is fetched and the result and the cache stay as they are.
C28_FetchedIffDue ==
    [][ (ovReq.at = "fetch" /\ ovReq'.at = "fetch" /\ ovReq' /= ovReq)
          => IF \E g \in ovLive' \ ovLive : g.kind = "unresolved"
             THEN /\ FetchedNow = {}
                  /\ ovReq'.out = ovReq.out
                  /\ ORDER_OVERRIDES' = ORDER_OVERRIDES
             ELSE /\ FetchedNow = Due
                  /\ ovReq.force_live => FetchedNow = Range(ovReq.keys) ]_vars

\* A call with force_live has fetched order 7 live although the call
\* before it had returned a complete record that the cache still held.
C28_Witness ==
    /\ ovReq.at = "done"
    /\ ovReq.force_live
    /\ <<"7">> \in ovReq.known \cap Range(ovReq.keys)
    /\ \E f \in ovLive : f.k = <<"7">> /\ f.kind = "order"

\* C28 as stated: whatever the store, every requested order that is due is
\* fetched live, and no other.
C28_FetchedIffDueAnyStore ==
    [][ (ovReq.at = "fetch" /\ ovReq'.at = "fetch" /\ ovReq' /= ovReq)
          => FetchedNow = Due ]_vars

\* C29: the set of order numbers in the override cache only grows: no
\* webhook push and no step of a getOverrides call, failing or not, removes
\* an order that has a cached record.
C29_CacheKeysOnlyGrow ==
    [][ DOMAIN ORDER_OVERRIDES \subseteq DOMAIN ORDER_OVERRIDES' ]_vars

\* Orders 7 and 8 are cached after a call in which the live fetch for
\* order 7 failed or found no order.
C29_Witness ==
    /\ ovReq.at = "done"
    /\ DOMAIN ORDER_OVERRIDES = {<<"7">>, <<"8">>}
    /\ \E f \in ovLive : f.k = <<"7">> /\ f.kind \in {"error", "none"}

\* C33: every record that getOverrides returns for a request that names a
\* store has that store in its store field.
C33_RecordsOfTheStore ==
    (ovReq.at = "done" /\ ovReq.store /= None)
       => \A k \in DOMAIN ovReq.out : ovReq.out[k].store = ovReq.store

(***************************************************************************)
(* Properties of the relay under concurrent requests                       *)
(***************************************************************************)
\* C10: no job id is returned by more than one of the pull requests for a
\* pc_id, however the requests interleave.
C10_NoOverlap ==
    \A t1, t2 \in Threads :
        ( /\ t1 /= t2
          /\ thr[t1].op = "pull" /\ thr[t1].at = "done"
          /\ thr[t2].op = "pull" /\ thr[t2].at = "done"
          /\ thr[t1].pc_id = thr[t2].pc_id )
        => Ids(thr[t1].out) \cap Ids(thr[t2].out) = {}

\* The broker under its default key, serving any sequence of requests.
\* C12: whatever key the broker is configured with, an enqueue whose
\* x-api-key header is absent or differs from that key answers 401, creates
\* no job and leaves every queue unchanged.
C12_BadKeyRejected ==
    [][ (last'.op = "enqueue" /\ last'.cred /= API_KEY /\ last' /= last)
          => /\ last'.status = 401
             /\ JOBS' = JOBS
             /\ nextJid' = nextJid ]_vars

\* C13: an enqueue with the valid API key for a pc_id that is not in the
\* registry answers 404, creates no queue for that pc_id and leaves every
\* queue unchanged.
C13_UnknownPcRejected ==
    [][ ( /\ last'.op = "enqueue"
          /\ last'.cred = API_KEY
          /\ last'.pc \notin DOMAIN PCS
          /\ last' /= last )
          => /\ last'.status = 404
             /\ JOBS' = JOBS
             /\ last'.pc \notin DOMAIN JOBS'
             /\ nextJid' = nextJid ]_vars

C13_Witness ==
    /\ last.op = "enqueue"
    /\ last.pc = "pc-x"
    /\ last.cred = API_KEY
    /\ last.status = 404
    /\ Queue("pc-lab-1") /= <<>>
    /\ "pc-x" \notin DOMAIN JOBS

\* C14: a pull for a pc_id that is not registered, or with a secret that
\* is not the registered one, answers 401, returns no jobs and leaves every
\* queue as it is.
C14_BadSecretRejected ==
    [][ ( /\ last'.op = "pull"
          /\ last'.pc \notin DOMAIN PCS \/ PCS[last'.pc] /= last'.cred
          /\ last' /= last )
          => /\ last'.status = 401
             /\ last'.out = <<>>
             /\ JOBS' = JOBS
             /\ delivered' = delivered ]_vars

C14_Witness ==
    /\ last.op = "pull"
    /\ last.pc = "pc-lab-1"
    /\ last.cred = "bad"
    /\ last.status = 401
    /\ Len(Queue("pc-lab-1")) = 2

\* copies >= 1 and no order string that begins with '#'
Normalized(job) ==
    /\ job.copies >= 1
    /\ \A i \in 1..Len(job.orders) :
          job.orders[i] = <<>> \/ Head(job.orders[i]) /= "#"

\* C15: every job in a queue, and every job a pull returned, has
\* copies >= 1 and no order string that begins with '#', whatever payloads
\* were enqueued (copies <= 0, orders with one or more leading '#').
C15_JobsNormalized ==
    /\ \A p \in DOMAIN JOBS : \A i \in 1..Len(JOBS[p]) : Normalized(JOBS[p][i])
    /\ \A p \in DOMAIN PCS :
          \A i \in 1..Len(delivered[p]) : Normalized(delivered[p][i])
    /\ \A i \in 1..Len(last.out) : Normalized(last.out[i])

\* The payload with orders ["##7"] and copies 0 and the one with copies -1
\* were enqueued and pulled.
C15_Witness ==
    /\ last.op = "pull"
    /\ \E i \in 1..Len(last.out) :
          last.out[i].orders = << <<"7">> >> /\ last.out[i].copies = 1
    /\ \E i \in 1..Len(last.out) :
          last.out[i].orders = << >> /\ last.out[i].copies = 1

\* Every job id an enqueue has issued.
Issued == UNION {Ids(accepted[p]) : p \in DOMAIN PCS}

\* C16: a successful enqueue appends exactly one job at the tail of the
\* queue of its pc_id, returns a job_id that no earlier enqueue returned,
\* and returns as queued the length of that queue after the append.
C16_EnqueueAppends ==
    [][ (last'.op = "enqueue" /\ last'.status = 200 /\ last' /= last)
          => LET pc == last'.pc
                 q == IF pc \in DOMAIN JOBS THEN JOBS[pc] ELSE <<>>
             IN  /\ pc \in DOMAIN JOBS'
                 /\ Len(JOBS'[pc]) = Len(q) + 1
                 /\ SubSeq(JOBS'[pc], 1, Len(q)) = q
                 /\ JOBS'[pc][Len(q) + 1].job_id = last'.job_id
                 /\ last'.job_id \notin Issued
                 /\ last'.queued = Len(q) + 1
                 /\ \A p \in DOMAIN JOBS : p /= pc => JOBS'[p] = JOBS[p]
                 /\ DOMAIN JOBS' = DOMAIN JOBS \cup {pc} ]_vars

\* The third job issued lands on a queue that holds one job.
C16_Witness ==
    /\ last.op = "enqueue"
    /\ last.status = 200
    /\ last.queued = 2
    /\ last.job_id = 3
    /\ Len(Queue(last.pc)) = 2

\* C17: an authorized pull returns at most max_items jobs (none when
\* max_items is 0 or negative), taken from the head of the queue oldest
\* first; on an empty queue it returns an empty list and no error.
C17_AtMostMaxItems ==
    (last.op = "pull" /\ last.pc \in DOMAIN PCS /\ PCS[last.pc] = last.cred)
       => /\ last.status = 200
          /\ Len(last.out) <= Max(0, last.n)
          /\ IsPrefix(last.out, last.before)

\* C18: an ack with the registered secret of its pc_id answers ok for
\* every job_id (pulled, still queued or never issued), any other ack
\* answers 401, and neither changes a queue.
C18_AckChangesNothing ==
    [][ (last'.op = "ack" /\ last' /= last)
          => /\ last'.status =
                  IF last'.pc \in DOMAIN PCS /\ PCS[last'.pc] = last'.cred
                  THEN 200 ELSE 401
             /\ JOBS' = JOBS
             /\ delivered' = delivered
             /\ nextJid' = nextJid ]_vars

\* An ack for a job that is still queued, after a pull returned another.
C18_Witness ==
    /\ last.op = "ack"
    /\ last.status = 200
    /\ last.job_id \in Ids(Queue(last.pc))
    /\ delivered[last.pc] /= <<>>

\* The relay's queue of a pc_id.
RelayQueue(pc_id) ==
    IF pc_id \in DOMAIN relayJOBS THEN Deref(relayJOBS[pc_id]) ELSE <<>>

\* C11: every job for which enqueue returned ok is still in its PC's queue
\* or is in the result of a pull, however enqueue and pull requests for
\* the pc_id interleave.
C11_NoLostJob ==
    \A t \in Threads :
        ( /\ thr[t].op = "enqueue"
          /\ thr[t].at = "done"
          /\ thr[t].status = 200 )
        => \/ thr[t].job.job_id \in Ids(RelayQueue(thr[t].pc_id))
           \/ \E p \in Threads :
                 /\ thr[p].op = "pull"
                 /\ thr[p].pc_id = thr[t].pc_id
                 /\ thr[t].job.job_id \in Ids(thr[p].out)

\* C38: the broker accepts a job whose orders list is empty and queues it
\* as it is.  For such a job the agent's gate, where it applies, passes at
\* its first attempt with nothing missing: the job is never blocked and
\* never takes the fallback, the print sink is called once with the empty
\* list, and when its answer is a success the agent goes on to ack the job
\* and does not requeue it.
C38_EmptyJobPrinted ==
    /\ [][\A body \in EmptyPayloads :
            enqueue(PC_ID, body, "CHANGE_ME_API_KEY")
               => /\ last'.status = 200
                  /\ Queue(PC_ID)' /= <<>>
                  /\ Queue(PC_ID)'[Len(Queue(PC_ID)')].orders
                        = body.orders]_vars
    /\ []((InJob /\ Job.orders = <<>>) =>
            /\ Job.job_id \in Ids(accepted[PC_ID])
            /\ ag.why /= "blocked"
            /\ ag.at /= "fallback"
            /\ ag.at \in {"sink", "ack", "requeue", "job_done"}
                 => /\ Len(ag.fetches) = 1
                    /\ ag.fetches[1].orders = <<>>
                    /\ Missing(Job.orders, ag.overrides) = <<>>
            /\ ag.at \in {"ack", "requeue", "job_done"} => Calls.sink = 1
            /\ (Calls.sink = 1 /\ SinkPrinted(ag.resp))
                 => /\ Calls.requeue = 0
                    /\ \/ ag.at = "ack" /\ Calls.ack = 0
                       \/ ag.at = "job_done" /\ Calls.ack = 1)

\* A job of store irranova without orders went through the gate with one
\* fetch, was printed and acked.
C38_Witness ==
    /\ InJob
    /\ Job.orders = <<>>
    /\ Job.store = "irranova"
    /\ ag.at = "job_done"
    /\ Len(ag.fetches) = 1
    /\ ~ag.fetches[1].force_live
    /\ Calls.sink = 1
    /\ SinkPrinted(ag.resp)
    /\ Calls.ack = 1
    /\ ~ag.abort

(***************************************************************************)
(* Properties of the two brokers side by side                              *)
(***************************************************************************)
\* C37: fed the same sequential history of enqueue, pull and ack requests
\* from the same PC registry and API key, the relay and the backend's
\* broker answer every request with the same status and the same jobs
\* (and the same queued count), and hold the same queue for every pc_id.
C37_BrokersAgree ==
    (BothIdle /\ thr[1].op /= "none") =>
        /\ thr[1].op = last.op
        /\ thr[1].pc_id = last.pc
        /\ thr[1].status = last.status
        /\ thr[1].out = last.out
        /\ (last.op = "enqueue" /\ last.status = 200) =>
               /\ thr[1].job.job_id = last.job_id
               /\ thr[1].queued = last.queued
        /\ \A p \in ReqPcIds : RelayQueue(p) = Queue(p)

\* Both brokers have taken jobs, handed some of them out on a pull that
\* left a job behind, and hold that job.
C37_Witness ==
    /\ BothIdle
    /\ thr[1].op = "pull"
    /\ thr[1].status = 200
    /\ thr[1].out /= <<>>
    /\ thr[1].out = last.out
    /\ RelayQueue(thr[1].pc_id) /= <<>>
    /\ RelayQueue(thr[1].pc_id) = Queue(last.pc)

Init ==
    /\ BrokerInit({"CHANGE_ME_API_KEY"})
    /\ RelayInit
    /\ OverridesInit
    /\ AgentInit

Next == Enqueue \/ Pull \/ Ack

Spec == Init /\ [][Next]_vars

\* The broker under each configuration of its API key.
InitKeys ==
    /\ BrokerInit(ApiKeyConfigs)
    /\ RelayInit
    /\ OverridesInit
    /\ AgentInit

SpecKeys == InitKeys /\ [][RequestsNext]_vars

\* The broker under requests with every credential.
SpecRequests == Init /\ [][RequestsNext]_vars

\* The agent of pc-lab-1, the broker it polls and a producer of jobs.
SpecAgent == Init /\ [][AgentNext]_vars

\* The agent as a process that keeps running: every call it makes returns
\* or times out, and every sleep ends.
SpecAgentFair == Init /\ [][AgentFairNext]_vars /\ WF_vars(AgentStep)

\* The two completeness checks on every override record.
InitComplete ==
    /\ BrokerInit({"CHANGE_ME_API_KEY"})
    /\ RelayInit
    /\ ORDER_OVERRIDES = << >>
    /\ ovReq = NoRequest
    /\ ovLive = {}
    /\ probe \in {[NoProbe EXCEPT !.ov = r, !.at = "record"] : r \in OvRecords}
    /\ AgentInit

SpecComplete == InitComplete /\ [][CheckComplete]_vars

\* The agent and one job that is never printed.
SpecStuck == Init /\ [][StuckNext]_vars

\* The agent and jobs for stores in several spellings.
SpecStores == Init /\ [][AgentStoresNext]_vars

\* The override cache under webhook pushes and get_overrides requests.
SpecOverrides == Init /\ [][OverridesNext]_vars

\* The relay serving MaxThreads concurrent requests.
SpecRelay == Init /\ [][RelayNext]_vars

SpecEmpty == Init /\ [][AgentEmptyNext]_vars

SpecBoth == Init /\ [][BothNext]_vars

=============================================================================
